---------------------------- MODULE Spec2Model ----------------------------
(***************************************************************************)
(* RepeaterConverter (src/RepeaterConverter.py): scrape a repeater table,  *)
(* normalise each row into a record, and serialise the record sequence as  *)
(* a generic CSV, a CHIRP CSV and an OpenStreetMap POI file.               *)
(*                                                                         *)
(* Texts (Python str) are sequences of one-character strings, so that      *)
(* strip(), replace() and float() are computed character by character.     *)
(* Frequencies are held in Hz as integers: float(text) * MHz is computed   *)
(* exactly from the decimal digits of the text.                            *)
(***************************************************************************)
EXTENDS Integers, Sequences, FiniteSets, TLC

VARIABLES
  pc,       \* the caller's position: the call it makes next, "done" or "crashed"
  freq,     \* the band id passed to getRepeaters
  bandIdx,  \* which band block of __main__ runs (0 for a library caller)
  page,     \* what the band's URL answered
  table,    \* the value getRepeaters returned, held by Output
  files,    \* the output files, by kind and band
  log,      \* the warnings and errors logged so far
  net,      \* the requests sent and the sleeps taken so far
  geo,      \* the geocoding service's answer for each record of the last
            \* write_openstreetfile call
  op        \* the call made last

vars == <<pc, freq, bandIdx, page, table, files, log, net, geo, op>>

(***************************************************************************)
(* Bounds of the model.                                                    *)
(***************************************************************************)
\* longest raw cell text drawn exhaustively from Chars
MaxLen == 3
\* most rows of a page whose rows vary in cell count
MaxRows == 3

(***************************************************************************)
(* Program constants.                                                      *)
(***************************************************************************)
kHz == 1000
MHz == 1000000

shift_28 == (-100) * kHz
shift_144 == (-600) * kHz
shift_430 == 1600 * kHz
shift_1298 == (-28) * MHz

CALLSIGN_IDX == 0
LOCATION_IDX == 1
FREQUENCY_IDX == 2
CTCSS_IDX == 3

\* the band ids getRepeaters dispatches on
Bands == {28, 144, 430, 1298}

(***************************************************************************)
(* Texts.                                                                  *)
(***************************************************************************)
TAB == "\t"
NL == "\n"
\* the characters str.strip() and float() treat as whitespace
WhiteSpace == {" ", TAB, NL}
Digits == {"0", "1", "2", "3", "4", "5", "6", "7", "8", "9"}

DigitVal(c) ==
  CASE c = "0" -> 0 [] c = "1" -> 1 [] c = "2" -> 2 [] c = "3" -> 3
    [] c = "4" -> 4 [] c = "5" -> 5 [] c = "6" -> 6 [] c = "7" -> 7
    [] c = "8" -> 8 [] c = "9" -> 9

RECURSIVE LStrip(_)
LStrip(s) ==
  IF s # <<>> /\ Head(s) \in WhiteSpace THEN LStrip(Tail(s)) ELSE s

RECURSIVE RStrip(_)
RStrip(s) ==
  IF s # <<>> /\ s[Len(s)] \in WhiteSpace
  THEN RStrip(SubSeq(s, 1, Len(s) - 1))
  ELSE s

\* str.strip()
Strip(s) == RStrip(LStrip(s))

\* str.replace(c, '')
Remove(s, c) == SelectSeq(s, LAMBDA x : x # c)

RECURSIVE Pow10(_)
Pow10(n) == IF n = 0 THEN 1 ELSE 10 * Pow10(n - 1)

RECURSIVE DigitsValue(_)
\* the integer a digit string denotes
DigitsValue(s) ==
  IF s = <<>> THEN 0
  ELSE 10 * DigitsValue(SubSeq(s, 1, Len(s) - 1)) + DigitVal(s[Len(s)])

Count(s, c) == Len(SelectSeq(s, LAMBDA x : x = c))

\* an unsigned decimal literal of float(): digits with at most one dot and
\* at least one digit
IsDecimal(u) ==
  /\ \A k \in 1..Len(u) : u[k] \in Digits \cup {"."}
  /\ Count(u, ".") <= 1
  /\ \E k \in 1..Len(u) : u[k] \in Digits

Unsigned(t) == IF t # <<>> /\ Head(t) \in {"+", "-"} THEN Tail(t) ELSE t

\* float(s) does not raise ValueError.  The exponent, inf/nan and
\* underscore forms of float() need characters outside Chars.
FloatParses(s) == IsDecimal(Unsigned(Strip(s)))

\* float(s) * MHz, for a text float() accepts
FloatTimesMHz(s) ==
  LET t == Strip(s)
      u == Unsigned(t)
      sign == IF t # <<>> /\ Head(t) = "-" THEN -1 ELSE 1
      hasDot == Count(u, ".") > 0
      dot == IF hasDot THEN CHOOSE k \in 1..Len(u) : u[k] = "." ELSE 0
      frac == IF hasDot THEN Len(u) - dot ELSE 0
      n == DigitsValue(Remove(u, "."))
  IN  sign * (IF frac <= 6 THEN n * (MHz \div Pow10(frac))
              ELSE n \div Pow10(frac - 6))

(***************************************************************************)
(* Source.Hamnieuws                                                        *)
(***************************************************************************)
\* the table value None
None == [isNone |-> TRUE, rows |-> <<>>]
\* a tuple of records
Tuple(recs) == [isNone |-> FALSE, rows |-> recs]

Warning(m, a) == [level |-> "warning", msg |-> m, arg |-> a]
Error(m, a) == [level |-> "error", msg |-> m, arg |-> a]

\* _get_data: the stripped td texts of every row that has any
GetData(rows) ==
  LET item(row) == [k \in 1..Len(row) |-> Strip(row[k])]
      all == [k \in 1..Len(rows) |-> item(rows[k])]
  IN  SelectSeq(all, LAMBDA it : it # <<>>)

\* the cleaned ctcss value of a row
CleanCtcss(cell) == Strip(Remove(Remove(cell, "-"), " "))

\* row[idx] of a Python tuple (0-based)
Item(row, idx) == row[idx + 1]

\* RowFails with every row of a cell count other than four rejected
RowFails_NotFour(row) == Len(row) # CTCSS_IDX + 1

\* the first try block of _data_to_table raises (IndexError at row[CTCSS_IDX])
RowFails(row) == Len(row) <= CTCSS_IDX

\* TxFrequency with the shift subtracted
TxFrequency_Minus(text, shift) ==
  IF FloatParses(text) THEN FloatTimesMHz(text) - shift ELSE 0

\* the value TX_Frequency ends with
TxFrequency(text, shift) ==
  IF FloatParses(text) THEN FloatTimesMHz(text) + shift ELSE 0

\* the dictionary _data_to_table builds of a row
Record(row, shift) ==
  [Callsign |-> Item(row, CALLSIGN_IDX),
   Location |-> Item(row, LOCATION_IDX),
   Frequency |-> Item(row, FREQUENCY_IDX),
   TX_Frequency |-> TxFrequency(Item(row, FREQUENCY_IDX), shift),
   Shift |-> shift,
   CTCSS |-> CleanCtcss(Item(row, CTCSS_IDX))]

RECURSIVE DataToTable(_, _)
\* _data_to_table: [ret, log], the records and the warnings, in row order
DataToTable(data, shift) ==
  IF data = <<>> THEN [ret |-> <<>>, log |-> <<>>]
  ELSE LET row == Head(data)
           rest == DataToTable(Tail(data), shift)
       IN  IF RowFails(row)
           THEN [ret |-> rest.ret,
                 log |-> <<Warning("Failed to convert row", row)>> \o rest.log]
           ELSE [ret |-> <<Record(row, shift)>> \o rest.ret,
                 log |-> (IF FloatParses(Item(row, FREQUENCY_IDX)) THEN <<>>
                          ELSE <<Warning("Failed to convert frequency",
                                         Item(row, FREQUENCY_IDX))>>)
                         \o rest.log]

\* ShiftOf with the sign of the 430 MHz shift lost
ShiftOf_SignSlip(f) ==
  CASE f = 28 -> shift_28
    [] f = 144 -> shift_144
    [] f = 430 -> -shift_430
    [] f = 1298 -> shift_1298

\* the shift getRepeaters passes for a supported band
ShiftOf(f) ==
  CASE f = 28 -> shift_28
    [] f = 144 -> shift_144
    [] f = 430 -> shift_430
    [] f = 1298 -> shift_1298

\* what the HTTP collaborator and the HTML parser hand back
FetchError == [kind |-> "FetchError", rows |-> <<>>]
NoTable == [kind |-> "NoTable", rows |-> <<>>]
Html(rows) == [kind |-> "html", rows |-> rows]

\* getRepeaters(f) when requests.get answers with page p:
\* [raised, fetched, table, log]
GetRepeaters(f, p) ==
  IF f \notin Bands
  THEN [raised |-> FALSE, fetched |-> FALSE, table |-> None,
        log |-> <<Error("Invalid frequency group", f)>>]
  ELSE IF p.kind # "html"
  THEN [raised |-> TRUE, fetched |-> TRUE, table |-> None, log |-> <<>>]
  ELSE LET r == DataToTable(GetData(p.rows), ShiftOf(f))
       IN  [raised |-> FALSE, fetched |-> TRUE, table |-> Tuple(r.ret),
            log |-> r.log]

(***************************************************************************)
(* Output                                                                  *)
(***************************************************************************)
\* a path that does not exist, a file left by an earlier run, and the
\* zero-byte file open(path, 'w') leaves
Absent == [exists |-> FALSE, header |-> <<>>, rows |-> <<>>]
Stale == [exists |-> TRUE, header |-> <<"stale">>, rows |-> <<>>]
Truncated == [exists |-> TRUE, header |-> <<>>, rows |-> <<>>]
Written(h, r) == [exists |-> TRUE, header |-> h, rows |-> r]

\* the keys of a record, in insertion order
RecordKeys ==
  <<"Callsign", "Location", "Frequency", "TX_Frequency", "Shift", "CTCSS">>

\* write_csv on table t with the target in state f: [raised, file, log].
\* The target is opened with 'w' before self.table[0] is read.
WriteCsv(t, f) ==
  IF t.isNone \/ t.rows = <<>>
  THEN [raised |-> TRUE, file |-> Truncated, log |-> <<>>]
  ELSE [raised |-> FALSE, file |-> Written(RecordKeys, t.rows), log |-> <<>>]

T82_5 == <<"8", "2", ".", "5">>
T88_5 == <<"8", "8", ".", "5">>

\* ChirpCtcss with the no-tone default as the fallback
ChirpCtcss_Fallback88(ctcss) ==
  IF ctcss # <<>> /\ ~FloatParses(ctcss) THEN T88_5 ELSE ctcss

\* the ctcss value write_chirp_csv goes on with
ChirpCtcss(ctcss) ==
  IF ctcss # <<>> /\ ~FloatParses(ctcss) THEN T82_5 ELSE ctcss

Abs(n) == IF n < 0 THEN -n ELSE n

\* the CHIRP row of record row, the counter-th of the table.  Offset is
\* held in Hz (the code divides by MHz).
ChirpRow(row, counter, shiftdir) ==
  LET ctcss == ChirpCtcss(row.CTCSS)
  IN  [Location |-> counter,
       Name |-> row.Callsign,
       Frequency |-> row.Frequency,
       Duplex |-> shiftdir,
       Offset |-> Abs(row.Shift),
       Tone |-> IF ctcss # <<>> THEN "Tone" ELSE "",
       rToneFreq |-> IF ctcss # <<>> THEN ctcss ELSE T88_5,
       cToneFreq |-> IF ctcss # <<>> THEN ctcss ELSE T88_5,
       DtcsCode |-> "0", DtcsPolarity |-> "NN", Mode |-> "FM",
       TStep |-> "5.00", Skip |-> "", URCALL |-> "", RPT1CALL |-> "",
       RPT2CALL |-> "", Comment |-> row.Location]

ChirpKeys ==
  <<"Location", "Name", "Frequency", "Duplex", "Offset", "Tone", "rToneFreq",
    "cToneFreq", "DtcsCode", "DtcsPolarity", "Mode", "TStep", "Skip",
    "URCALL", "RPT1CALL", "RPT2CALL", "Comment">>

\* the warnings of the loop of write_chirp_csv
ChirpLog(recs) ==
  LET bad == SelectSeq(recs, LAMBDA r : r.CTCSS # <<>> /\ ~FloatParses(r.CTCSS))
  IN  [k \in 1..Len(bad) |-> Warning("Something wrong with CTCSS", bad[k].CTCSS)]

\* write_chirp_csv: [raised, file, log]
WriteChirpCsv(t, shiftdir, f) ==
  IF t.isNone
  THEN [raised |-> TRUE, file |-> f, log |-> <<>>]
  ELSE LET outrows == [k \in 1..Len(t.rows) |->
                         ChirpRow(t.rows[k], k - 1, shiftdir)]
       IN  IF outrows = <<>>
           THEN [raised |-> TRUE, file |-> Truncated, log |-> ChirpLog(t.rows)]
           ELSE [raised |-> FALSE, file |-> Written(ChirpKeys, outrows),
                 log |-> ChirpLog(t.rows)]

\* time.sleep(random.randrange(1, 8)/10.0): the bounds of the draw
RandLo == 1
RandHi == 8

\* what goes out on the network, and the pauses between
PageRequest(f) == [ev |-> "page", type |-> "", band |-> f, lo |-> 0, hi |-> 0]
Request(placetype) == [ev |-> "geocode", type |-> placetype, band |-> 0, lo |-> 0, hi |-> 0]
\* a pause of lo to hi tenths of a second; the draw itself is not kept
Sleep == [ev |-> "sleep", type |-> "", band |-> 0, lo |-> RandLo, hi |-> RandHi - 1]

\* _geocoder(place, placetype) when the service answers (ok) or the request,
\* the JSON or loc[0] fails: [raised, net]
Geocoder(place, placetype, ok) ==
  IF ok
  THEN [raised |-> FALSE, net |-> <<Request(placetype), Sleep>>]
  ELSE [raised |-> TRUE, net |-> <<Request(placetype)>>]

\* what the geocoding service does for one record: it answers the city
\* query, or only the free-text query, or neither
GeoOutcomes == {"city", "q", "fail"}

\* the try block of write_openstreetfile for one record: [raised, net]
Locate(row, o) ==
  LET city == Geocoder(row.Location, "city", o = "city")
  IN  IF ~city.raised THEN city
      ELSE LET q == Geocoder(row.Location, "q", o = "q")
           IN  [raised |-> q.raised, net |-> city.net \o q.net]

OsmHeader ==
  <<"lat", "lon", "title", "description", "icon", "iconSize", "iconOffset">>

\* the line of a geocoded record; SH is held in Hz (the code divides by MHz)
OsmLine(row, image, offset) ==
  [lat |-> "lat", lon |-> "lon", title |-> row.Callsign,
   RX |-> row.Frequency, CT |-> row.CTCSS, SH |-> row.Shift,
   icon |-> image, iconSize |-> "16,16", iconOffset |-> offset]

\* OsmLoop with the first record that cannot be geocoded ending the loop
RECURSIVE OsmLoop_Abort(_, _, _, _)
OsmLoop_Abort(recs, outs, image, offset) ==
  IF recs = <<>> THEN [out |-> <<>>, log |-> <<>>, net |-> <<>>]
  ELSE LET row == Head(recs)
           got == Locate(row, Head(outs))
           rest == OsmLoop_Abort(Tail(recs), Tail(outs), image, offset)
       IN  IF got.raised
           THEN [out |-> <<>>,
                 log |-> <<Warning("failed for", row)>>,
                 net |-> got.net]
           ELSE [out |-> <<OsmLine(row, image, offset)>> \o rest.out,
                 log |-> rest.log,
                 net |-> got.net \o rest.net]

RECURSIVE OsmLoop(_, _, _, _)
\* the loop of write_openstreetfile: [out, log, net]
OsmLoop(recs, outs, image, offset) ==
  IF recs = <<>> THEN [out |-> <<>>, log |-> <<>>, net |-> <<>>]
  ELSE LET row == Head(recs)
           got == Locate(row, Head(outs))
           rest == OsmLoop(Tail(recs), Tail(outs), image, offset)
       IN  IF got.raised
           THEN [out |-> rest.out,
                 log |-> <<Warning("failed for", row)>> \o rest.log,
                 net |-> got.net \o rest.net]
           ELSE [out |-> <<OsmLine(row, image, offset)>> \o rest.out,
                 log |-> rest.log,
                 net |-> got.net \o rest.net]

\* write_openstreetfile: [raised, file, log, net]
WriteOpenstreetfile(t, image, offset, outs, f) ==
  IF t.isNone
  THEN [raised |-> TRUE, file |-> f, log |-> <<>>, net |-> <<>>]
  ELSE LET r == OsmLoop(t.rows, outs, image, offset)
       IN  [raised |-> FALSE, file |-> Written(OsmHeader, r.out),
            log |-> r.log, net |-> r.net]

(***************************************************************************)
(* Inputs: the pages the site serves.                                      *)
(***************************************************************************)
\* the characters raw cell texts are drawn from: digits, the dot, the
\* hyphen, two kinds of whitespace and a letter
Chars == {"0", "1", ".", "-", " ", TAB, "x"}

Texts == UNION {[1..k -> Chars] : k \in 0..MaxLen}

T434 == <<"4", "3", "4", ".", "0", "0", "0", "0">>
Utrecht == <<"U", "t", "r">>
DigitChar(j) == CHOOSE c \in Digits : DigitVal(c) = j
\* the callsign of the j-th row of a page
Tag(j) == <<"P", "I", DigitChar(j)>>

\* a four-cell row whose cell at idx is the text t
TextRow(idx, t) ==
  [k \in 1..4 |-> IF k = idx + 1 THEN t
                  ELSE Item(<<Tag(1), Utrecht, T434, T88_5>>, k - 1)]

\* the j-th row of a page, with c td cells
CellRow(j, c) ==
  [k \in 1..c |-> IF k <= 4 THEN Item(<<Tag(j), Utrecht, T434, T88_5>>, k - 1)
                  ELSE <<"x">>]

\* how many td cells a row may have
CellCounts == {0, 1, 3, 4, 5}

TextPages ==
  {Html(<<TextRow(idx, t)>>) : idx \in {FREQUENCY_IDX, CTCSS_IDX}, t \in Texts}

StructPages ==
  UNION {{Html([j \in 1..n |-> CellRow(j, c[j])]) : c \in [1..n -> CellCounts]}
           : n \in 0..MaxRows}

CallPages == TextPages \cup StructPages \cup {FetchError, NoTable}

\* a band id getRepeaters has no branch for
OtherBands == {50}

(***************************************************************************)
(* The file system and the arguments __main__ passes.                      *)
(***************************************************************************)
Kinds == {"csv", "chirp", "osm"}
Paths == Kinds \X (Bands \cup OtherBands)

\* the output directory before the run: an earlier run left the generic
\* CSV files, the other targets do not exist yet
OutputDirectory == [p \in Paths |-> IF p[1] = "csv" THEN Stale ELSE Absent]

BANDS == <<28, 144, 430, 1298>>

Duplex(f) == IF f = 430 THEN "+" ELSE IF f \in Bands THEN "-" ELSE ""
Image(f) == <<"ant", f>>
Offset(f) ==
  CASE f = 28 -> <<-16, -16>>
    [] f = 144 -> <<-8, -8>>
    [] f = 430 -> <<0, 0>>
    [] OTHER -> <<8, 8>>

\* an uncaught exception ends the process
Raise == pc' = "crashed"

(***************************************************************************)
(* A caller of the library: one getRepeaters call, then one serializer on  *)
(* Output(table).                                                          *)
(***************************************************************************)
InitCall ==
  /\ pc = "getRepeaters"
  /\ bandIdx = 0
  /\ freq \in Bands \cup OtherBands
  /\ page \in IF freq \in Bands THEN CallPages ELSE {FetchError}
  /\ table = None
  /\ files = OutputDirectory
  /\ log = <<>>
  /\ net = <<>>
  /\ geo = <<>>
  /\ op = ""

CallGetRepeaters ==
  /\ pc = "getRepeaters"
  /\ LET r == GetRepeaters(freq, page)
     IN  /\ table' = r.table
         /\ log' = log \o r.log
         /\ net' = IF r.fetched THEN Append(net, PageRequest(freq)) ELSE net
         /\ op' = "getRepeaters"
         /\ IF r.raised THEN Raise ELSE pc' = "serialize"
  /\ UNCHANGED <<freq, bandIdx, page, files, geo>>

CallWriteCsv ==
  /\ pc = "serialize"
  /\ LET path == <<"csv", freq>>
         r == WriteCsv(table, files[path])
     IN  /\ files' = [files EXCEPT ![path] = r.file]
         /\ op' = "write_csv"
         /\ IF r.raised THEN Raise ELSE pc' = "done"
  /\ UNCHANGED <<freq, bandIdx, page, table, log, net, geo>>

CallWriteChirpCsv ==
  /\ pc = "serialize"
  /\ LET path == <<"chirp", freq>>
         r == WriteChirpCsv(table, Duplex(freq), files[path])
     IN  /\ files' = [files EXCEPT ![path] = r.file]
         /\ log' = log \o r.log
         /\ op' = "write_chirp_csv"
         /\ IF r.raised THEN Raise ELSE pc' = "done"
  /\ UNCHANGED <<freq, bandIdx, page, table, net, geo>>

CallWriteOpenstreetfile ==
  /\ pc = "serialize"
  /\ \E outs \in [1..Len(table.rows) -> GeoOutcomes] :
       LET path == <<"osm", freq>>
           r == WriteOpenstreetfile(table, Image(freq), Offset(freq), outs,
                                    files[path])
       IN  /\ geo' = outs
           /\ files' = [files EXCEPT ![path] = r.file]
           /\ log' = log \o r.log
           /\ net' = net \o r.net
           /\ op' = "write_openstreetfile"
           /\ IF r.raised THEN Raise ELSE pc' = "done"
  /\ UNCHANGED <<freq, bandIdx, page, table>>

NextCall ==
  \/ CallGetRepeaters
  \/ CallWriteCsv
  \/ CallWriteChirpCsv
  \/ CallWriteOpenstreetfile

SpecCall == InitCall /\ [][NextCall]_vars

(***************************************************************************)
(* __main__: the four bands in sequence, three output files per band, no   *)
(* exception handler.                                                      *)
(***************************************************************************)
\* the pages a band's URL may answer with
MainPages ==
  {FetchError, NoTable, Html(<<>>), Html(<<CellRow(1, 3)>>),
   Html(<<CellRow(1, 4)>>), Html(<<CellRow(1, 0), CellRow(2, 4)>>)}

Init ==
  /\ pc = "getRepeaters"
  /\ bandIdx = 1
  /\ freq = BANDS[1]
  /\ page = Html(<<>>)
  /\ table = None
  /\ files = OutputDirectory
  /\ log = <<>>
  /\ net = <<>>
  /\ geo = <<>>
  /\ op = ""

\* table_X = Source.Hamnieuws().getRepeaters(X); out_X = Output(table_X)
MainGetRepeaters ==
  /\ pc = "getRepeaters"
  /\ \E p \in MainPages :
       LET r == GetRepeaters(freq, p)
       IN  /\ page' = p
           /\ table' = r.table
           /\ log' = log \o r.log
           /\ net' = IF r.fetched THEN Append(net, PageRequest(freq)) ELSE net
           /\ op' = "getRepeaters"
           /\ IF r.raised THEN Raise ELSE pc' = "write_csv"
  /\ UNCHANGED <<freq, bandIdx, files, geo>>

\* out_X.write_csv(prefix + "csv_X.csv")
MainWriteCsv ==
  /\ pc = "write_csv"
  /\ LET path == <<"csv", freq>>
         r == WriteCsv(table, files[path])
     IN  /\ files' = [files EXCEPT ![path] = r.file]
         /\ op' = "write_csv"
         /\ IF r.raised THEN Raise ELSE pc' = "write_chirp_csv"
  /\ UNCHANGED <<freq, bandIdx, page, table, log, net, geo>>

\* out_X.write_chirp_csv(prefix + "chirp_X.csv", shiftdir)
MainWriteChirpCsv ==
  /\ pc = "write_chirp_csv"
  /\ LET path == <<"chirp", freq>>
         r == WriteChirpCsv(table, Duplex(freq), files[path])
     IN  /\ files' = [files EXCEPT ![path] = r.file]
         /\ log' = log \o r.log
         /\ op' = "write_chirp_csv"
         /\ IF r.raised THEN Raise ELSE pc' = "write_openstreetfile"
  /\ UNCHANGED <<freq, bandIdx, page, table, net, geo>>

\* out_X.write_openstreetfile(image, prefix + "osm_X.xml", offset), then on
\* to the next band or to the end
MainWriteOpenstreetfile ==
  /\ pc = "write_openstreetfile"
  /\ \E outs \in [1..Len(table.rows) -> GeoOutcomes] :
       LET path == <<"osm", freq>>
           r == WriteOpenstreetfile(table, Image(freq), Offset(freq), outs,
                                    files[path])
       IN  /\ geo' = outs
           /\ files' = [files EXCEPT ![path] = r.file]
           /\ log' = log \o r.log
           /\ net' = net \o r.net
           /\ op' = "write_openstreetfile"
           /\ IF r.raised
              THEN Raise /\ UNCHANGED <<freq, bandIdx>>
              ELSE IF bandIdx < Len(BANDS)
              THEN /\ bandIdx' = bandIdx + 1
                   /\ freq' = BANDS[bandIdx + 1]
                   /\ pc' = "getRepeaters"
              ELSE /\ pc' = "done"
                   /\ UNCHANGED <<freq, bandIdx>>
  /\ UNCHANGED <<page, table>>

Next ==
  \/ MainGetRepeaters
  \/ MainWriteCsv
  \/ MainWriteChirpCsv
  \/ MainWriteOpenstreetfile

Spec == Init /\ [][Next]_vars

(***************************************************************************)
(* Claims about a library call (SpecCall).                                 *)
(***************************************************************************)
\* getRepeaters of a supported band has returned a tuple
Returned == freq \in Bands /\ op # "" /\ ~(op = "getRepeaters" /\ pc = "crashed")

\* the rows of the page that have at least n td cells
RowsWith(n) == SelectSeq(page.rows, LAMBDA row : Len(row) >= n)

\* the spec's shift of a band, in Hz
SpecShift(f) ==
  CASE f = 28 -> -100000
    [] f = 144 -> -600000
    [] f = 430 -> 1600000
    [] f = 1298 -> -28000000

\* C1: every record of a band carries the band's fixed Shift; its
\* TX_Frequency is Frequency (MHz) * 1,000,000 + Shift when the Frequency
\* text parses (band 430, "434.0000" gives 435,600,000), and otherwise the
\* record is still in the result with TX_Frequency 0 and a warning logged.
C1_ShiftAndTxFrequency ==
  Returned =>
    LET src == RowsWith(4)
    IN  /\ Len(table.rows) = Len(src)
        /\ \A k \in 1..Len(src) :
             LET r == table.rows[k]
                 text == Strip(src[k][3])
             IN  /\ r.Shift = SpecShift(freq)
                 /\ r.Frequency = text
                 /\ (freq = 430 /\ text = T434) => r.TX_Frequency = 435600000
                 /\ IF FloatParses(text)
                    THEN r.TX_Frequency = FloatTimesMHz(text) + SpecShift(freq)
                    ELSE /\ r.TX_Frequency = 0
                         /\ \E i \in 1..Len(log) :
                              /\ log[i].level = "warning"
                              /\ log[i].msg = "Failed to convert frequency"
                              /\ log[i].arg = text

\* C1 witness: band 430 has returned the record of "434.0000"
C1_Witness ==
  /\ Returned
  /\ freq = 430
  /\ Len(table.rows) = 1
  /\ table.rows[1].Frequency = T434
  /\ table.rows[1].TX_Frequency = 435600000

\* C2 as stated: every row with exactly 4 cells and a numeric Frequency
\* yields a record with a nonzero TX_Frequency.
C2_Original ==
  Returned =>
    \A k \in 1..Len(RowsWith(4)) :
      (Len(RowsWith(4)[k]) = 4 /\ FloatParses(Strip(RowsWith(4)[k][3])))
        => table.rows[k].TX_Frequency # 0

\* C2 amended: for a row with exactly 4 cells and a numeric Frequency,
\* TX_Frequency is zero exactly when Frequency in Hz equals minus the band's
\* Shift (0.1 MHz on band 28), and nonzero otherwise.
C2_NonzeroUnlessMinusShift ==
  Returned =>
    \A k \in 1..Len(RowsWith(4)) :
      LET text == Strip(RowsWith(4)[k][3])
      IN  (Len(RowsWith(4)[k]) = 4 /\ FloatParses(text))
            => (table.rows[k].TX_Frequency = 0
                  <=> FloatTimesMHz(text) = -SpecShift(freq))

\* C2 witness: a numeric Frequency other than minus the shift got a nonzero
\* TX_Frequency, and on another band 0.1 MHz would not be zero either
C2_Witness ==
  /\ Returned
  /\ Len(table.rows) = 1
  /\ Len(page.rows[1]) = 4
  /\ table.rows[1].Frequency = <<"1", ".", "1">>
  /\ table.rows[1].TX_Frequency # 0

\* C3 as stated: the records are, in order, those of the rows with exactly
\* 4 cells; every row with another nonzero cell count is dropped with a
\* warning; rows without cells are skipped silently.
C3_Original ==
  Returned =>
    LET four == SelectSeq(page.rows, LAMBDA row : Len(row) = 4)
        wrong == SelectSeq(page.rows, LAMBDA row : Len(row) \notin {0, 4})
        warns == SelectSeq(log, LAMBDA e : e.msg = "Failed to convert row")
    IN  /\ Len(table.rows) = Len(four)
        /\ \A k \in 1..Len(four) :
             table.rows[k].Callsign = Strip(four[k][1])
        /\ Len(warns) = Len(wrong)

\* C3 amended: the records are, in source order, those of the rows with 4
\* or more cells, each built of the row's first four cells; every row with
\* 1 to 3 cells is dropped with a warning naming it; rows without cells are
\* skipped silently; later rows are processed whatever came before.
C3_SourceOrderFilter ==
  Returned =>
    LET src == RowsWith(4)
        short == SelectSeq(page.rows, LAMBDA row : Len(row) \in 1..3)
        warns == SelectSeq(log, LAMBDA e : e.msg = "Failed to convert row")
    IN  /\ Len(table.rows) = Len(src)
        /\ \A k \in 1..Len(src) :
             /\ table.rows[k].Callsign = Strip(src[k][1])
             /\ table.rows[k].Location = Strip(src[k][2])
             /\ table.rows[k].Frequency = Strip(src[k][3])
        /\ Len(warns) = Len(short)
        /\ \A k \in 1..Len(short) :
             /\ warns[k].level = "warning"
             /\ Len(warns[k].arg) = Len(short[k])
             /\ warns[k].arg[1] = Strip(short[k][1])

\* C3 witness: a short row was dropped and the 5-cell row after it kept
C3_Witness ==
  /\ Returned
  /\ Len(page.rows) = 2
  /\ Len(page.rows[1]) = 1
  /\ Len(page.rows[2]) = 5
  /\ Len(table.rows) = 1
  /\ table.rows[1].Callsign = Tag(2)

\* C4 as stated: the CTCSS field of a record holds no whitespace character
\* and no hyphen.
C4_NoWhitespaceNoHyphen ==
  Returned =>
    \A k \in 1..Len(table.rows) :
      \A i \in 1..Len(table.rows[k].CTCSS) :
        table.rows[k].CTCSS[i] \notin WhiteSpace \cup {"-"}

\* C5 as stated: write_csv or write_chirp_csv on an empty record sequence
\* fails and leaves the target path as it was, neither created nor
\* truncated.
C5_EmptyInputLeavesNoFile ==
  (Returned /\ table.rows = <<>>) =>
    /\ op = "write_csv" =>
         /\ pc = "crashed"
         /\ files[<<"csv", freq>>] = OutputDirectory[<<"csv", freq>>]
    /\ op = "write_chirp_csv" =>
         /\ pc = "crashed"
         /\ files[<<"chirp", freq>>] = OutputDirectory[<<"chirp", freq>>]

\* the rows of the CHIRP file of the band, once written
ChirpFile == files[<<"chirp", freq>>]
ChirpWritten == Returned /\ op = "write_chirp_csv" /\ pc = "done"

OnlyDigitsAndDots(t) == \A i \in 1..Len(t) : t[i] \in Digits \cup {"."}
CtcssWarnings == SelectSeq(log, LAMBDA e : e.msg = "Something wrong with CTCSS")

\* C6 as stated: an empty CTCSS gives Tone "" and both tone fields "88.5";
\* a CTCSS of digits and dots only is copied unchanged with Tone "Tone"; any
\* other value is replaced by "82.5" and a warning is logged.
C6_Original ==
  ChirpWritten =>
    \A k \in 1..Len(table.rows) :
      LET c == table.rows[k].CTCSS
          o == ChirpFile.rows[k]
      IN  /\ o.rToneFreq = o.cToneFreq
          /\ IF c = <<>> THEN o.Tone = "" /\ o.rToneFreq = T88_5
             ELSE IF OnlyDigitsAndDots(c) THEN o.Tone = "Tone" /\ o.rToneFreq = c
             ELSE o.rToneFreq = T82_5 /\ Len(CtcssWarnings) > 0

\* C6 amended: an empty CTCSS gives Tone "" and both tone fields "88.5"; a
\* CTCSS that float() accepts (among texts of digits and dots: those with at
\* most one dot and at least one digit) is copied unchanged with Tone
\* "Tone"; every other value, a lone "." or "1..1" included, is replaced by
\* "82.5" with Tone "Tone", and one warning is logged per replaced value.
C6_ToneFields ==
  ChirpWritten =>
    /\ Len(ChirpFile.rows) = Len(table.rows)
    /\ \A k \in 1..Len(table.rows) :
         LET c == table.rows[k].CTCSS
             o == ChirpFile.rows[k]
             numeric == /\ OnlyDigitsAndDots(c)
                        /\ Cardinality({i \in 1..Len(c) : c[i] = "."}) <= 1
                        /\ \E i \in 1..Len(c) : c[i] \in Digits
         IN  /\ o.rToneFreq = o.cToneFreq
             /\ IF c = <<>> THEN o.Tone = "" /\ o.rToneFreq = T88_5
                ELSE IF numeric THEN o.Tone = "Tone" /\ o.rToneFreq = c
                ELSE /\ o.Tone = "Tone"
                     /\ o.rToneFreq = T82_5
                     /\ \E i \in 1..Len(CtcssWarnings) :
                          /\ CtcssWarnings[i].level = "warning"
                          /\ CtcssWarnings[i].arg = c
    /\ Len(CtcssWarnings) =
         Cardinality({k \in 1..Len(table.rows) :
                        ChirpFile.rows[k].rToneFreq # table.rows[k].CTCSS
                          /\ table.rows[k].CTCSS # <<>>})

\* C6 witness: a CTCSS of digits and dots that is no number was replaced
C6_Witness ==
  /\ ChirpWritten
  /\ Len(table.rows) = 1
  /\ table.rows[1].CTCSS = <<"1", ".", ".">>
  /\ ChirpFile.rows[1].rToneFreq = T82_5
  /\ ChirpFile.rows[1].Tone = "Tone"

\* write_openstreetfile has run on the table of a supported band
OsmFile == files[<<"osm", freq>>]
OsmRan == Returned /\ op = "write_openstreetfile"

\* the indices of the records the service located, in order
Located == SelectSeq([k \in 1..Len(geo) |-> k], LAMBDA k : geo[k] # "fail")
GeoWarnings == SelectSeq(log, LAMBDA e : e.msg = "failed for")

\* C7: write_openstreetfile skips a record, with a warning, exactly when
\* both its city query and its free-text query fail; the file is the header
\* followed by one line per located record, in record order; a failure
\* never stops later records or the writing of the file.
C7_PartialSuccess ==
  OsmRan =>
    /\ pc = "done"
    /\ Len(geo) = Len(table.rows)
    /\ OsmFile.exists
    /\ OsmFile.header = OsmHeader
    /\ Len(OsmFile.rows) = Len(Located)
    /\ \A j \in 1..Len(Located) :
         /\ OsmFile.rows[j].title = table.rows[Located[j]].Callsign
         /\ OsmFile.rows[j].RX = table.rows[Located[j]].Frequency
         /\ OsmFile.rows[j].CT = table.rows[Located[j]].CTCSS
    /\ Len(GeoWarnings) = Len(geo) - Len(Located)
    /\ \A k \in 1..Len(geo) :
         geo[k] = "fail" =>
           \E i \in 1..Len(GeoWarnings) :
             /\ GeoWarnings[i].level = "warning"
             /\ GeoWarnings[i].arg = table.rows[k]

\* C7 witness: the second of three records could not be located, the file
\* holds the first and the third
C7_Witness ==
  /\ OsmRan
  /\ pc = "done"
  /\ geo = <<"city", "fail", "q">>
  /\ Len(OsmFile.rows) = 2
  /\ OsmFile.rows[1].title = table.rows[1].Callsign
  /\ OsmFile.rows[2].title = table.rows[3].Callsign

\* C8 as stated: every two consecutive requests to the geocoding service
\* are separated by a sleep of 100 to 800 ms.
C8_SleepBetweenRequests ==
  \A i \in 1..Len(net) :
    /\ (net[i].ev = "geocode" /\ i < Len(net)) =>
         (net[i + 1].ev = "sleep" /\ net[i + 1].lo >= 1 /\ net[i + 1].hi <= 8)

\* C10 as stated: getRepeaters of an unsupported band fetches no page, logs
\* an error and yields no result without raising, and running a serializer
\* on that result does not crash the caller.
C10_UnsupportedBand ==
  freq \notin Bands =>
    /\ net = <<>>
    /\ op = "getRepeaters" => pc # "crashed"
    /\ op # "" =>
         /\ table.isNone
         /\ \E i \in 1..Len(log) : log[i].level = "error"
    /\ pc # "crashed"

(***************************************************************************)
(* Claims about the driver (Spec).                                         *)
(***************************************************************************)
\* C9 as stated: a failure of one band or one output file aborts only the
\* current operation: when the run has ended, every band's page has been
\* requested and the run has reached its end.
C9_FailureIsolated ==
  pc \in {"done", "crashed"} =>
    /\ \A b \in Bands : \E i \in 1..Len(net) : net[i].ev = "page" /\ net[i].band = b
    /\ bandIdx = Len(BANDS)

=============================================================================
